---- MODULE Spec2Model ----
(***************************************************************************)
(* Model of the Quran flashcards application (src/app.js): the navigation  *)
(* state (currentAyahIndex, currentWordIndex, isMcqMode), the handlers     *)
(* goNext, goPrev, switchMode, flipCard, playRecitation, checkAnswer, the  *)
(* auto-advance timers scheduled by checkAnswer, and the part of the page  *)
(* that displayCurrentContent rewrites.                                    *)
(*                                                                         *)
(* Indices are kept 0-based as in the source; TLA+ sequences are 1-based,  *)
(* so the element at JavaScript index i is seq[i + 1].                     *)
(***************************************************************************)
EXTENDS Integers, Sequences, FiniteSets, TLC

(* ---------------- bounds of the model ---------------- *)
MaxAyahs == 3       \* a loaded surah has 1..MaxAyahs ayahs
MaxTotalWords == 3  \* and at most MaxTotalWords words in all, at least one per ayah
MaxTimers == 2      \* at most MaxTimers auto-advance timers are pending at a time
MaxLen == 3         \* shuffleArray is looked at on arrays of 0..MaxLen elements

\* JavaScript null, comparable with the records that surahData and audio hold.
Null == [null |-> TRUE]

VARIABLES
  currentAyahIndex,  \* app.js:17
  currentWordIndex,  \* app.js:18
  surahData,         \* app.js:19  Null until loadSurahData resolves
  audio,             \* app.js:20  Null or the recitation (surah and ayah number) started last
  isMcqMode,         \* app.js:21
  flipped,           \* flashcard.classList contains 'flipped'
  mcqOptions,        \* the option buttons inside #mcq-options and the answer their closures captured
  mcqFeedback,       \* class of #mcq-feedback: "", "correct" or "wrong"
  prevDisabled,      \* prevBtn.disabled
  nextDisabled,      \* nextBtn.disabled
  nextText,          \* nextBtn.textContent: "Next" or "Restart"
  progress,          \* <<currentAyahSpan, wordProgress>> as written by updateProgress
  timers,            \* number of setTimeout callbacks of checkAnswer that have not fired yet
  last,              \* history: the handler that ran last and what it did
  pre                \* history: the values of the program variables when that handler started

\* One call of displayMcqWord looked at on its own (the array objects it
\* handles), for the properties of shuffleArray.
VARIABLES
  options,           \* word.options: the content of the stored array object
  original,          \* history: the content of word.options when the corpus was loaded
  shuffled,          \* app.js:122  shuffledOptions: the array shuffleArray returned last
  call               \* history: <<>>, or the last shuffleArray call: the array object passed and the
                     \* values Math.random gave

\* The service worker (src/unnamed/part_000) and the cache storage of its origin.
VARIABLES
  swState,           \* lifecycle state of the worker
  caches,            \* CacheStorage: cache name -> set of the requests it holds a response for
  toDelete,          \* the keys for which the activate handler calls caches.delete
  fetched            \* history: the last fetch event and how it was answered

nav == <<currentAyahIndex, currentWordIndex, isMcqMode>>
shuffleVars == <<options, original, shuffled, call>>
workerVars == <<swState, caches, toDelete, fetched>>
page == <<flipped, mcqOptions, mcqFeedback, prevDisabled, nextDisabled, nextText, progress>>
appVars == <<currentAyahIndex, currentWordIndex, surahData, audio, isMcqMode, flipped,
             mcqOptions, mcqFeedback, prevDisabled, nextDisabled, nextText, progress,
             timers, last, pre>>
vars == <<appVars, shuffleVars, workerVars>>

(* ---------------- the corpus (data/surahs.json) ---------------- *)

\* A word: its meaning is the correct one of its answer options.
Word(a, w) == [meaning |-> "meaning", options |-> <<"meaning", "other">>]

\* An ayah with n words.
Ayah(a, n) == [number |-> a + 1, words |-> [w \in 1..n |-> Word(a, w - 1)]]

\* The surah whose ayahs have the word counts given by the sequence counts.
Surah(counts) == [number |-> 1, ayahs |-> [a \in 1..Len(counts) |-> Ayah(a - 1, counts[a])]]

RECURSIVE Sum(_)
Sum(counts) == IF counts = <<>> THEN 0 ELSE Head(counts) + Sum(Tail(counts))

WordCounts ==
  {c \in UNION {[1..n -> 1..MaxTotalWords] : n \in 1..MaxAyahs} : Sum(c) <= MaxTotalWords}

Surahs == {Surah(c) : c \in WordCounts}

\* data.ayahs.length and data.ayahs[a].words.length
AyahsLength(data) == Len(data.ayahs)
WordsLength(data, a) == Len(data.ayahs[a + 1].words)

NumAyahs == AyahsLength(surahData)
NumWords(a) == WordsLength(surahData, a)

(* ---------------- shuffleArray ---------------- *)

\* Random indices drawn from the whole array at every step (Math.random() * array.length).
RandomIndices_WholeRange(n) == [1..(n - 1) -> 0..(n - 1)]

\* The values Math.floor(Math.random() * (i + 1)) can take at the steps
\* i = n-1 down to 1 of one shuffle of an array of length n.
RandomIndices(n) == {r \in [1..(n - 1) -> 0..(n - 1)] : \A i \in 1..(n - 1) : r[i] <= i}

\* A swap that overwrites array[i] before saving it: array[i] = array[j]; array[j] = array[i].
Swap_Overwrite(array, i, j) ==
  [k \in 1..Len(array) |-> IF k = i + 1 THEN array[j + 1] ELSE array[k]]

\* [array[i], array[j]] = [array[j], array[i]]
Swap(array, i, j) ==
  [k \in 1..Len(array) |-> IF k = i + 1 THEN array[j + 1]
                           ELSE IF k = j + 1 THEN array[i + 1]
                           ELSE array[k]]

RECURSIVE shuffleLoop(_, _, _)
shuffleLoop(array, i, r) ==
  IF i > 0 THEN shuffleLoop(Swap(array, i, r[i]), i - 1, r) ELSE array

shuffleArray(array, r) == shuffleLoop(array, Len(array) - 1, r)

(* ---------------- navigation functions ---------------- *)

\* The navigation part of a record.
Nav(r) == [currentAyahIndex |-> r.currentAyahIndex,
           currentWordIndex |-> r.currentWordIndex,
           isMcqMode |-> r.isMcqMode]

State == [currentAyahIndex |-> currentAyahIndex,
          currentWordIndex |-> currentWordIndex,
          isMcqMode |-> isMcqMode]

\* goNext that keeps currentWordIndex when it moves to the next ayah.
goNext_KeepsWord(s) ==
  IF s.isMcqMode
  THEN LET totalWords == NumWords(s.currentAyahIndex) IN
       IF s.currentWordIndex < totalWords - 1
       THEN [s EXCEPT !.currentWordIndex = @ + 1] @@ [display |-> TRUE]
       ELSE IF s.currentAyahIndex < NumAyahs - 1
       THEN [s EXCEPT !.currentAyahIndex = @ + 1] @@ [display |-> TRUE]
       ELSE s @@ [display |-> FALSE]
  ELSE IF s.currentAyahIndex < NumAyahs - 1
       THEN [s EXCEPT !.currentAyahIndex = @ + 1] @@ [display |-> TRUE]
       ELSE [s EXCEPT !.currentAyahIndex = 0] @@ [display |-> TRUE]

\* goNext that stays on the last ayah in flashcard mode instead of restarting.
goNext_NoRestart(s) ==
  IF s.isMcqMode
  THEN LET totalWords == NumWords(s.currentAyahIndex) IN
       IF s.currentWordIndex < totalWords - 1
       THEN [s EXCEPT !.currentWordIndex = @ + 1] @@ [display |-> TRUE]
       ELSE IF s.currentAyahIndex < NumAyahs - 1
       THEN [s EXCEPT !.currentAyahIndex = @ + 1, !.currentWordIndex = 0] @@ [display |-> TRUE]
       ELSE s @@ [display |-> FALSE]
  ELSE IF s.currentAyahIndex < NumAyahs - 1
       THEN [s EXCEPT !.currentAyahIndex = @ + 1] @@ [display |-> TRUE]
       ELSE s @@ [display |-> TRUE]

\* goNext that restarts the quiz after the last word of the last ayah.
goNext_WrapsInQuiz(s) ==
  IF s.isMcqMode
  THEN LET totalWords == NumWords(s.currentAyahIndex) IN
       IF s.currentWordIndex < totalWords - 1
       THEN [s EXCEPT !.currentWordIndex = @ + 1] @@ [display |-> TRUE]
       ELSE IF s.currentAyahIndex < NumAyahs - 1
       THEN [s EXCEPT !.currentAyahIndex = @ + 1, !.currentWordIndex = 0] @@ [display |-> TRUE]
       ELSE [s EXCEPT !.currentAyahIndex = 0, !.currentWordIndex = 0] @@ [display |-> TRUE]
  ELSE IF s.currentAyahIndex < NumAyahs - 1
       THEN [s EXCEPT !.currentAyahIndex = @ + 1] @@ [display |-> TRUE]
       ELSE [s EXCEPT !.currentAyahIndex = 0] @@ [display |-> TRUE]

\* goNext as a function of the navigation state s; display tells whether
\* the call reaches displayCurrentContent().
goNext(s) ==
  IF s.isMcqMode
  THEN LET totalWords == NumWords(s.currentAyahIndex) IN
       IF s.currentWordIndex < totalWords - 1
       THEN [s EXCEPT !.currentWordIndex = @ + 1] @@ [display |-> TRUE]
       ELSE IF s.currentAyahIndex < NumAyahs - 1
       THEN [s EXCEPT !.currentAyahIndex = @ + 1, !.currentWordIndex = 0] @@ [display |-> TRUE]
       ELSE s @@ [display |-> FALSE]
  ELSE IF s.currentAyahIndex < NumAyahs - 1
       THEN [s EXCEPT !.currentAyahIndex = @ + 1] @@ [display |-> TRUE]
       ELSE [s EXCEPT !.currentAyahIndex = 0] @@ [display |-> TRUE]


\* goPrev that takes the word count of the ayah it leaves, not of the one it enters.
goPrev_WrongAyah(s) ==
  IF s.isMcqMode
  THEN IF s.currentWordIndex > 0
       THEN [s EXCEPT !.currentWordIndex = @ - 1] @@ [display |-> TRUE]
       ELSE IF s.currentAyahIndex > 0
       THEN [s EXCEPT !.currentAyahIndex = @ - 1,
                      !.currentWordIndex = NumWords(s.currentAyahIndex) - 1]
            @@ [display |-> TRUE]
       ELSE s @@ [display |-> FALSE]
  ELSE IF s.currentAyahIndex > 0
       THEN [s EXCEPT !.currentAyahIndex = @ - 1] @@ [display |-> TRUE]
       ELSE s @@ [display |-> FALSE]

\* goPrev that enters the previous ayah at its first word.
goPrev_FirstWord(s) ==
  IF s.isMcqMode
  THEN IF s.currentWordIndex > 0
       THEN [s EXCEPT !.currentWordIndex = @ - 1] @@ [display |-> TRUE]
       ELSE IF s.currentAyahIndex > 0
       THEN [s EXCEPT !.currentAyahIndex = @ - 1, !.currentWordIndex = 0]
            @@ [display |-> TRUE]
       ELSE s @@ [display |-> FALSE]
  ELSE IF s.currentAyahIndex > 0
       THEN [s EXCEPT !.currentAyahIndex = @ - 1] @@ [display |-> TRUE]
       ELSE s @@ [display |-> FALSE]

\* goPrev that wraps from the first ayah to the last one in flashcard mode
\* (once there is a corpus).
goPrev_Wraps(s) ==
  IF s.isMcqMode
  THEN IF s.currentWordIndex > 0
       THEN [s EXCEPT !.currentWordIndex = @ - 1] @@ [display |-> TRUE]
       ELSE IF s.currentAyahIndex > 0
       THEN [s EXCEPT !.currentAyahIndex = @ - 1,
                      !.currentWordIndex = NumWords(s.currentAyahIndex - 1) - 1]
            @@ [display |-> TRUE]
       ELSE s @@ [display |-> FALSE]
  ELSE IF s.currentAyahIndex > 0
       THEN [s EXCEPT !.currentAyahIndex = @ - 1] @@ [display |-> TRUE]
       ELSE IF surahData # Null
       THEN [s EXCEPT !.currentAyahIndex = NumAyahs - 1] @@ [display |-> TRUE]
       ELSE s @@ [display |-> FALSE]

\* goPrev as a function of the navigation state s.
goPrev(s) ==
  IF s.isMcqMode
  THEN IF s.currentWordIndex > 0
       THEN [s EXCEPT !.currentWordIndex = @ - 1] @@ [display |-> TRUE]
       ELSE IF s.currentAyahIndex > 0
       THEN [s EXCEPT !.currentAyahIndex = @ - 1,
                      !.currentWordIndex = NumWords(s.currentAyahIndex - 1) - 1]
            @@ [display |-> TRUE]
       ELSE s @@ [display |-> FALSE]
  ELSE IF s.currentAyahIndex > 0
       THEN [s EXCEPT !.currentAyahIndex = @ - 1] @@ [display |-> TRUE]
       ELSE s @@ [display |-> FALSE]

\* switchMode that resets currentWordIndex only when the mode changes.
switchMode_OnChange(s, newIsMcq) ==
  [currentAyahIndex |-> s.currentAyahIndex,
   currentWordIndex |-> IF newIsMcq /\ ~s.isMcqMode THEN 0 ELSE s.currentWordIndex,
   isMcqMode |-> newIsMcq,
   display |-> TRUE]

\* switchMode without the reset of the word index.
switchMode_KeepsWord(s, newIsMcq) ==
  [currentAyahIndex |-> s.currentAyahIndex,
   currentWordIndex |-> s.currentWordIndex,
   isMcqMode |-> newIsMcq,
   display |-> TRUE]

\* switchMode as a function of the navigation state s; it always reaches
\* displayCurrentContent(false).
switchMode(s, newIsMcq) ==
  [currentAyahIndex |-> s.currentAyahIndex,
   currentWordIndex |-> IF newIsMcq THEN 0 ELSE s.currentWordIndex,
   isMcqMode |-> newIsMcq,
   display |-> TRUE]

(* ---------------- display ---------------- *)

\* updateProgress: the texts of #current-ayah and #word-progress.
updateProgress(data, s) ==
  <<s.currentAyahIndex + 1,
    IF s.isMcqMode
    THEN <<s.currentWordIndex + 1, WordsLength(data, s.currentAyahIndex)>>
    ELSE <<>> >>

\* updateButtons that looks at the word boundaries of the current ayah only.
updateButtons_WithinAyah(data, s) ==
  IF s.isMcqMode
  THEN LET totalWords == WordsLength(data, s.currentAyahIndex)
           isFirstWord == s.currentWordIndex = 0
           isLastWord == s.currentWordIndex = totalWords - 1
       IN [prevDisabled |-> isFirstWord, nextDisabled |-> isLastWord, nextText |-> "Next"]
  ELSE LET isLast == s.currentAyahIndex = AyahsLength(data) - 1
       IN [prevDisabled |-> s.currentAyahIndex = 0, nextDisabled |-> FALSE,
           nextText |-> IF isLast THEN "Restart" ELSE "Next"]

\* updateButtons: the enablement of the navigation buttons and the label of Next.
updateButtons(data, s) ==
  IF s.isMcqMode
  THEN LET totalWords == WordsLength(data, s.currentAyahIndex)
           isFirstWord == s.currentAyahIndex = 0 /\ s.currentWordIndex = 0
           isLastWord == s.currentAyahIndex = AyahsLength(data) - 1 /\
                         s.currentWordIndex = totalWords - 1
       IN [prevDisabled |-> isFirstWord, nextDisabled |-> isLastWord, nextText |-> "Next"]
  ELSE LET isLast == s.currentAyahIndex = AyahsLength(data) - 1
       IN [prevDisabled |-> s.currentAyahIndex = 0, nextDisabled |-> FALSE,
           nextText |-> IF isLast THEN "Restart" ELSE "Next"]

\* displayCurrentContent ends in an uncaught TypeError when the corpus is not
\* loaded yet (surahData.ayahs of null) or when the word to show does not
\* exist (word.arabic of undefined, app.js:115).
DisplayThrows(data, s) ==
  \/ data = Null
  \/ /\ s.isMcqMode
     /\ s.currentWordIndex >= WordsLength(data, s.currentAyahIndex)

\* The buttons displayMcqWord creates for word, in the order given by the
\* shuffle with random indices r; each click listener captures word.meaning.
McqButtons(word, r) ==
  LET shuffledOptions == shuffleArray(word.options, r)
  IN [k \in 1..Len(shuffledOptions) |->
        [textContent |-> shuffledOptions[k], correct |-> word.meaning,
         disabled |-> FALSE, classList |-> {}]]

displayMcqWord ==
  LET ayah == surahData'.ayahs[currentAyahIndex' + 1]
      word == ayah.words[currentWordIndex' + 1]
  IN /\ mcqFeedback' = ""
     /\ \E r \in RandomIndices(Len(word.options)) : mcqOptions' = McqButtons(word, r)

displayFlashcard == flipped' = FALSE

\* playRecitation: audio becomes a player for the recitation of the current ayah;
\* the URL is built from the surah number and the ayah number.
playRecitation ==
  audio' = [surahNum |-> surahData'.number,
            ayahNum |-> surahData'.ayahs[currentAyahIndex' + 1].number]

\* displayCurrentContent(autoplay), run on the navigation state the handler
\* has just assigned (the primed variables).
displayCurrentContent(autoplay) ==
  LET s == [currentAyahIndex |-> currentAyahIndex',
            currentWordIndex |-> currentWordIndex',
            isMcqMode |-> isMcqMode']
  IN IF DisplayThrows(surahData', s)
     THEN UNCHANGED <<page, audio>>
     ELSE /\ IF isMcqMode'
             THEN displayMcqWord /\ UNCHANGED <<flipped, audio>>
             ELSE /\ displayFlashcard
                  /\ IF autoplay THEN playRecitation ELSE UNCHANGED audio
                  /\ UNCHANGED <<mcqOptions, mcqFeedback>>
          /\ progress' = updateProgress(surahData', s)
          /\ prevDisabled' = updateButtons(surahData', s).prevDisabled
          /\ nextDisabled' = updateButtons(surahData', s).nextDisabled
          /\ nextText' = updateButtons(surahData', s).nextText

(* ---------------- history ---------------- *)

Snapshot == [currentAyahIndex |-> currentAyahIndex,
             currentWordIndex |-> currentWordIndex,
             isMcqMode |-> isMcqMode,
             loaded |-> surahData # Null,
             timers |-> timers,
             audio |-> audio,
             flipped |-> flipped]

\* What a handler that applied the navigation result r did.
Did(op, arg, r, autoplay) ==
  LET s == Nav(r)
      threw == r.display /\ DisplayThrows(surahData, s)
  IN [op |-> op, arg |-> arg, display |-> r.display, threw |-> threw,
      played |-> r.display /\ ~threw /\ ~r.isMcqMode /\ autoplay]

(* ---------------- initial state ---------------- *)

\* No displayMcqWord call is looked at on its own.
ShuffleIdle ==
  /\ options = <<>>
  /\ original = <<>>
  /\ shuffled = <<>>
  /\ call = <<>>

\* No service worker is registered and the cache storage is empty.
WorkerIdle ==
  /\ swState = "none"
  /\ caches = <<>>
  /\ toDelete = {}
  /\ fetched = Null

AppInit ==
  /\ currentAyahIndex = 0
  /\ currentWordIndex = 0
  /\ surahData = Null
  /\ audio = Null
  /\ isMcqMode = FALSE
  /\ flipped = FALSE
  /\ mcqOptions = <<>>
  /\ mcqFeedback = ""
  /\ prevDisabled \in BOOLEAN
  /\ nextDisabled \in BOOLEAN
  /\ nextText = "Next"
  /\ progress = <<0, <<>> >>
  /\ timers = 0
  /\ last = [op |-> "init", arg |-> Null, display |-> FALSE, threw |-> FALSE, played |-> FALSE]
  /\ pre = Snapshot

Init == AppInit /\ ShuffleIdle /\ WorkerIdle

(* ---------------- handlers ---------------- *)

\* Assign the navigation state r and refresh the display if the handler does.
Apply(r, autoplay) ==
  /\ currentAyahIndex' = r.currentAyahIndex
  /\ currentWordIndex' = r.currentWordIndex
  /\ isMcqMode' = r.isMcqMode
  /\ UNCHANGED surahData
  /\ IF r.display THEN displayCurrentContent(autoplay) ELSE UNCHANGED <<page, audio>>

\* One call of goNext(), from the Next button, the ArrowRight key or a timer.
\* Before the corpus is loaded the call ends in a TypeError at its first
\* read of surahData.ayahs.
CallGoNext(op) ==
  IF surahData = Null
  THEN /\ UNCHANGED <<nav, surahData, page, audio>>
       /\ last' = [op |-> op, arg |-> Null, display |-> FALSE, threw |-> TRUE, played |-> FALSE]
  ELSE /\ Apply(goNext(State), TRUE)
       /\ last' = Did(op, Null, goNext(State), TRUE)

\* loadSurahData resolves: surahs[0] of the fetched document becomes surahData.
LoadSurahData ==
  /\ surahData = Null
  /\ \E data \in Surahs : surahData' = data
  /\ UNCHANGED nav
  /\ displayCurrentContent(TRUE)
  /\ last' = [op |-> "load", arg |-> Null, display |-> TRUE,
              threw |-> DisplayThrows(surahData', State),
              played |-> ~isMcqMode]
  /\ pre' = Snapshot
  /\ UNCHANGED timers
  /\ UNCHANGED <<shuffleVars, workerVars>>

\* Click on Next (when it is enabled) or the ArrowRight key.
Next_ ==
  /\ CallGoNext("next")
  /\ pre' = Snapshot
  /\ UNCHANGED timers
  /\ UNCHANGED <<shuffleVars, workerVars>>

\* Click on Previous (when it is enabled) or the ArrowLeft key.
Prev ==
  /\ Apply(goPrev(State), TRUE)
  /\ last' = Did("prev", Null, goPrev(State), TRUE)
  /\ pre' = Snapshot
  /\ UNCHANGED timers
  /\ UNCHANGED <<shuffleVars, workerVars>>

\* switchMode that ends in displayCurrentContent() with the default autoplay.
SwitchMode_Autoplays ==
  \E newIsMcq \in BOOLEAN :
    /\ Apply(switchMode(State, newIsMcq), TRUE)
    /\ last' = Did("switchMode", newIsMcq, switchMode(State, newIsMcq), TRUE)
    /\ pre' = Snapshot
    /\ UNCHANGED timers
    /\ UNCHANGED <<shuffleVars, workerVars>>

\* switchMode that clears the pending auto-advance timers.
SwitchMode_ClearsTimers ==
  \E newIsMcq \in BOOLEAN :
    /\ Apply(switchMode(State, newIsMcq), FALSE)
    /\ last' = Did("switchMode", newIsMcq, switchMode(State, newIsMcq), FALSE)
    /\ pre' = Snapshot
    /\ timers' = 0
    /\ UNCHANGED <<shuffleVars, workerVars>>

\* Click on the Flashcard tab (newIsMcq = FALSE) or the MCQ tab (TRUE).
SwitchMode ==
  \E newIsMcq \in BOOLEAN :
    /\ Apply(switchMode(State, newIsMcq), FALSE)
    /\ last' = Did("switchMode", newIsMcq, switchMode(State, newIsMcq), FALSE)
    /\ pre' = Snapshot
    /\ UNCHANGED timers
    /\ UNCHANGED <<shuffleVars, workerVars>>

\* flipCard: click on the flashcard or the space key.
FlipCard ==
  /\ flipped' = IF ~isMcqMode THEN ~flipped ELSE flipped
  /\ last' = [op |-> "flip", arg |-> Null, display |-> FALSE, threw |-> FALSE, played |-> FALSE]
  /\ pre' = Snapshot
  /\ UNCHANGED <<nav, surahData, audio, mcqOptions, mcqFeedback, prevDisabled, nextDisabled,
                 nextText, progress, timers>>
  /\ UNCHANGED <<shuffleVars, workerVars>>

\* Click on the play button, which switchMode hides in MCQ mode.
PlayAudio ==
  /\ ~isMcqMode
  /\ UNCHANGED <<nav, surahData, page>>
  /\ IF surahData = Null THEN UNCHANGED audio ELSE playRecitation
  /\ last' = [op |-> "play", arg |-> Null, display |-> FALSE,
              threw |-> surahData = Null, played |-> surahData # Null]
  /\ pre' = Snapshot
  /\ UNCHANGED timers
  /\ UNCHANGED <<shuffleVars, workerVars>>

\* checkAnswer that schedules the auto-advance after a wrong answer too.
checkAnswer_AlwaysAdvance(allButtons, b) ==
  LET selected == allButtons[b].textContent
      correct == allButtons[b].correct
  IN [buttons |-> [k \in 1..Len(allButtons) |->
                     [allButtons[k] EXCEPT
                        !.disabled = TRUE,
                        !.classList =
                           IF selected = correct
                           THEN IF k = b THEN @ \cup {"correct"} ELSE @
                           ELSE (IF k = b THEN @ \cup {"wrong"} ELSE @)
                                \cup (IF allButtons[k].textContent = correct
                                      THEN {"correct"} ELSE {})]],
      feedback |-> IF selected = correct THEN "correct" ELSE "wrong",
      timeouts |-> 1]

\* checkAnswer(selected, correct, buttonElement) where buttonElement is the
\* button b of allButtons: the buttons and the feedback it leaves, and the
\* number of setTimeout(goNext) calls it makes.
checkAnswer(allButtons, b) ==
  LET selected == allButtons[b].textContent
      correct == allButtons[b].correct
  IN IF selected = correct
     THEN [buttons |-> [k \in 1..Len(allButtons) |->
                          [allButtons[k] EXCEPT
                             !.disabled = TRUE,
                             !.classList = IF k = b THEN @ \cup {"correct"} ELSE @]],
           feedback |-> "correct",
           timeouts |-> 1]
     ELSE [buttons |-> [k \in 1..Len(allButtons) |->
                          [allButtons[k] EXCEPT
                             !.disabled = TRUE,
                             !.classList =
                                (IF k = b THEN @ \cup {"wrong"} ELSE @)
                                \cup (IF allButtons[k].textContent = correct
                                      THEN {"correct"} ELSE {})]],
           feedback |-> "wrong",
           timeouts |-> 0]

\* An option click whose checkAnswer calls goNext() at once on a correct answer.
SelectOption_AdvancesNow ==
  /\ isMcqMode
  /\ \E b \in 1..Len(mcqOptions) :
       LET r == checkAnswer(mcqOptions, b)
       IN /\ ~mcqOptions[b].disabled
          /\ IF r.timeouts > 0
             THEN Apply(goNext(State), TRUE)
             ELSE /\ mcqOptions' = r.buttons
                  /\ mcqFeedback' = r.feedback
                  /\ UNCHANGED <<nav, surahData, audio, flipped, prevDisabled, nextDisabled,
                                 nextText, progress>>
          /\ last' = [op |-> "select",
                      arg |-> [button |-> b, selected |-> mcqOptions[b].textContent,
                               correct |-> mcqOptions[b].correct],
                      display |-> FALSE, threw |-> FALSE, played |-> FALSE]
  /\ pre' = Snapshot
  /\ UNCHANGED timers
  /\ UNCHANGED <<shuffleVars, workerVars>>

\* Click on the enabled option button b of the quiz view.
SelectOption ==
  /\ isMcqMode
  /\ \E b \in 1..Len(mcqOptions) :
       LET r == checkAnswer(mcqOptions, b)
       IN /\ ~mcqOptions[b].disabled
          /\ timers + r.timeouts <= MaxTimers
          /\ mcqOptions' = r.buttons
          /\ mcqFeedback' = r.feedback
          /\ timers' = timers + r.timeouts
          /\ last' = [op |-> "select",
                      arg |-> [button |-> b, selected |-> mcqOptions[b].textContent,
                               correct |-> mcqOptions[b].correct],
                      display |-> FALSE, threw |-> FALSE, played |-> FALSE]
  /\ pre' = Snapshot
  /\ UNCHANGED <<nav, surahData, audio, flipped, prevDisabled, nextDisabled, nextText,
                 progress>>
  /\ UNCHANGED <<shuffleVars, workerVars>>

\* The callback of one setTimeout of checkAnswer runs: goNext().
TimerFire ==
  /\ timers > 0
  /\ timers' = timers - 1
  /\ CallGoNext("timer")
  /\ pre' = Snapshot
  /\ UNCHANGED <<shuffleVars, workerVars>>

Next ==
  \/ LoadSurahData
  \/ Next_
  \/ Prev
  \/ SwitchMode
  \/ FlipCard
  \/ PlayAudio
  \/ SelectOption
  \/ TimerFire

Spec == Init /\ [][Next]_vars

\* The event loop runs the callback of every timer that is pending: nothing
\* in the program clears a timer, so TimerFire stays enabled until it is taken.
FairSpec == Spec /\ WF_vars(TimerFire)


(* ---------------- displayMcqWord and shuffleArray on array objects ---------------- *)

\* The arrays shuffleArray is looked at on; elements may repeat.
Arrays == UNION {[1..n -> 1..MaxLen] : n \in 0..MaxLen}

\* shuffleArray(array) on the array object ref of heap: it permutes that
\* object in place and returns it, so heap[ref] is also the returned array.
shuffleInPlace(heap, ref, r) == [heap EXCEPT ![ref] = shuffleArray(heap[ref], r)]

\* displayMcqWord that passes word.options itself to shuffleArray.
DisplayWord_NoCopy ==
  \E r \in RandomIndices(Len(options)) :
    LET heap0 == [stored |-> options]
        heap1 == shuffleInPlace(heap0, "stored", r)
    IN /\ options' = heap1.stored
       /\ shuffled' = heap1.stored
       /\ call' = <<[array |-> "stored", j |-> r]>>
       /\ UNCHANGED <<original, appVars, workerVars>>

\* const shuffledOptions = shuffleArray([...word.options]): the spread makes
\* a new array object, copy, with the elements of the stored one.
DisplayWord ==
  \E r \in RandomIndices(Len(options)) :
    LET heap0 == [stored |-> options, copy |-> options]
        heap1 == shuffleInPlace(heap0, "copy", r)
    IN /\ options' = heap1.stored
       /\ shuffled' = heap1.copy
       /\ call' = <<[array |-> "copy", j |-> r]>>
       /\ UNCHANGED <<original, appVars, workerVars>>

\* A word with any option list is loaded and has not been displayed yet.
ShuffleInit ==
  /\ AppInit /\ ~prevDisabled /\ ~nextDisabled
  /\ WorkerIdle
  /\ original \in Arrays
  /\ options = original
  /\ shuffled = <<>>
  /\ call = <<>>

ShuffleNext == DisplayWord

ShuffleSpec == ShuffleInit /\ [][ShuffleNext]_vars

(* ---------------- the service worker ---------------- *)

CACHE_NAME == "quran-flashcards-v4"

FILES_TO_CACHE ==
  <<"/", "/index.html", "/style.css", "/app.js", "/data/surahs.json", "/manifest.json">>

Files == {FILES_TO_CACHE[k] : k \in DOMAIN FILES_TO_CACHE}

\* The caches the origin may hold when the worker is registered: any of an
\* older version's cache, a cache of this version and an unrelated one, each
\* empty or with entries.
CacheNames == {"quran-flashcards-v3", CACHE_NAME, "fonts"}
OldContents == {{}, {"/old.js"}, {"/index.html", "/old.js"}}
InitialCaches == UNION {[S -> OldContents] : S \in SUBSET CacheNames}

\* The URLs the controlled page may request: the precached files, a file of
\* an older version and a recitation.
Requests == Files \cup {"/old.js", "/recitation.mp3"}

\* caches.open(name): the cache storage with the cache name created if missing.
open(c, name) ==
  IF name \in DOMAIN c THEN c ELSE [k \in DOMAIN c \cup {name} |-> IF k = name THEN {} ELSE c[k]]

\* caches.delete(key)
delete(c, key) == [k \in DOMAIN c \ {key} |-> c[k]]

\* caches.match(request): is there a response for request in some cache?
match(c, request) == \E k \in DOMAIN c : request \in c[k]

\* An activate handler that removes the previous version's cache only.
StaleKeys_PreviousVersion(keyList) == {key \in keyList : key = "quran-flashcards-v3"}

\* The keys of keyList for which the activate handler calls caches.delete.
StaleKeys(keyList) == {key \in keyList : key # CACHE_NAME}

\* A fetch handler that stores the network response in the current cache.
fetchHandler_StoresResponse(c, request, online) ==
  IF match(c, request)
  THEN [source |-> "cache", network |-> FALSE, caches |-> c]
  ELSE IF online
       THEN [source |-> "network", network |-> TRUE,
             caches |-> [open(c, CACHE_NAME) EXCEPT ![CACHE_NAME] = @ \cup {request}]]
       ELSE [source |-> "error", network |-> TRUE, caches |-> c]

\* The fetch handler on cache storage c: response || fetch(event.request).
\* source is where the response comes from ("error": fetch rejected),
\* network whether fetch was called, caches the storage it leaves.
fetchHandler(c, request, online) ==
  IF match(c, request)
  THEN [source |-> "cache", network |-> FALSE, caches |-> c]
  ELSE [source |-> IF online THEN "network" ELSE "error", network |-> TRUE, caches |-> c]

\* navigator.serviceWorker.register('sw.js'): the worker starts installing.
Register ==
  /\ swState = "none"
  /\ swState' = "installing"
  /\ UNCHANGED <<caches, toDelete, fetched, appVars, shuffleVars>>

\* The install handler: caches.open(CACHE_NAME), then cache.addAll, which
\* adds all the files or, when a request fails, none; the worker is then
\* installed or discarded.
Install ==
  /\ swState = "installing"
  /\ \E ok \in BOOLEAN :
       IF ok
       THEN /\ caches' = [open(caches, CACHE_NAME) EXCEPT ![CACHE_NAME] = @ \cup Files]
            /\ swState' = "installed"
       ELSE /\ caches' = open(caches, CACHE_NAME)
            /\ swState' = "redundant"
  /\ UNCHANGED <<toDelete, fetched, appVars, shuffleVars>>

\* The activate handler starts: caches.keys() resolves and the handler calls
\* caches.delete for the stale keys.
ActivateStart ==
  /\ swState = "installed"
  /\ swState' = "activating"
  /\ toDelete' = StaleKeys(DOMAIN caches)
  /\ UNCHANGED <<caches, fetched, appVars, shuffleVars>>

\* One of the caches.delete(key) calls takes effect.
DeleteOne ==
  /\ swState = "activating"
  /\ \E key \in toDelete \cap DOMAIN caches : caches' = delete(caches, key)
  /\ UNCHANGED <<swState, toDelete, fetched, appVars, shuffleVars>>

\* Promise.all resolves once every delete has: the worker is activated.
ActivateDone ==
  /\ swState = "activating"
  /\ toDelete \cap DOMAIN caches = {}
  /\ swState' = "activated"
  /\ UNCHANGED <<caches, toDelete, fetched, appVars, shuffleVars>>

\* A fetch event of the controlled page, which only the activated worker gets.
Fetch ==
  /\ swState = "activated"
  /\ \E request \in Requests, online \in BOOLEAN :
       LET r == fetchHandler(caches, request, online)
       IN /\ caches' = r.caches
          /\ fetched' = [request |-> request, source |-> r.source, network |-> r.network,
                         before |-> caches]
  /\ UNCHANGED <<swState, toDelete, appVars, shuffleVars>>

WorkerInit ==
  /\ AppInit /\ ~prevDisabled /\ ~nextDisabled
  /\ ShuffleIdle
  /\ swState = "none"
  /\ caches \in InitialCaches
  /\ toDelete = {}
  /\ fetched = Null

WorkerNext ==
  \/ Register
  \/ Install
  \/ ActivateStart
  \/ DeleteOne
  \/ ActivateDone
  \/ Fetch

WorkerSpec == WorkerInit /\ [][WorkerNext]_vars

(***************************************************************************)
(* Properties                                                              *)
(***************************************************************************)

Loaded == surahData # Null
LastAyah == NumAyahs - 1
LastWord(a) == NumWords(a) - 1
CalledGoNext == last.op = "next" \/ last.op = "timer"
PreNav == Nav(pre)

\* C1 (as stated): once the corpus is loaded, currentAyahIndex is an index of
\* an ayah and currentWordIndex is an index of a word of the current ayah,
\* in flashcard mode as well as in MCQ mode.
C1_IndicesValidInBothModes ==
  Loaded =>
    /\ currentAyahIndex \in 0..LastAyah
    /\ currentWordIndex \in 0..LastWord(currentAyahIndex)

\* C1 (amended): once the corpus is loaded, currentAyahIndex is an index of
\* an ayah in both modes; currentWordIndex is an index of a word of the
\* current ayah whenever the mode is MCQ, and in flashcard mode it is only an
\* index of a word of some ayah (the one the quiz showed last).
C1_IndicesValid ==
  Loaded =>
    /\ currentAyahIndex \in 0..LastAyah
    /\ isMcqMode => currentWordIndex \in 0..LastWord(currentAyahIndex)
    /\ ~isMcqMode => \E a \in 0..LastAyah : currentWordIndex \in 0..LastWord(a)

\* goPrev() has just moved the quiz across an ayah boundary, onto the last
\* word of an ayah whose word count differs from that of the ayah it left.
C1_Witness ==
  /\ Loaded /\ isMcqMode /\ last.op = "prev"
  /\ pre.isMcqMode /\ pre.currentAyahIndex = currentAyahIndex + 1
  /\ NumWords(pre.currentAyahIndex) # NumWords(currentAyahIndex)
  /\ currentWordIndex = LastWord(currentAyahIndex)

\* What next() has to do to the navigation state s in MCQ mode, by C2.
ExpectedNextQuiz(s) ==
  IF s.currentWordIndex # LastWord(s.currentAyahIndex)
  THEN [s EXCEPT !.currentWordIndex = s.currentWordIndex + 1]
  ELSE IF s.currentAyahIndex # LastAyah
  THEN [s EXCEPT !.currentAyahIndex = s.currentAyahIndex + 1, !.currentWordIndex = 0]
  ELSE s

Pos(r) == <<r.currentAyahIndex, r.currentWordIndex>>

\* C2: a goNext() call in MCQ mode moves to the next word of the ayah, else
\* to the first word of the next ayah, else (last word of the last ayah)
\* changes nothing; with word counts [2,1] three calls from (0,0) give
\* (0,1), (1,0), (1,0).
C2_NextInQuiz ==
  /\ (CalledGoNext /\ pre.loaded /\ pre.isMcqMode) => State = ExpectedNextQuiz(PreNav)
  /\ surahData = Surah(<<2, 1>>) =>
       LET s0 == [currentAyahIndex |-> 0, currentWordIndex |-> 0, isMcqMode |-> TRUE]
           s1 == Nav(goNext(s0))
           s2 == Nav(goNext(s1))
           s3 == Nav(goNext(s2))
       IN <<Pos(s1), Pos(s2), Pos(s3)>> = << <<0, 1>>, <<1, 0>>, <<1, 0>> >>

\* goNext() has just moved the quiz from the last word of ayah 0 to the first
\* word of ayah 1 in the corpus with word counts [2,1].
C2_Witness ==
  /\ surahData = Surah(<<2, 1>>) /\ last.op = "next" /\ pre.isMcqMode
  /\ Pos(pre) = <<0, 1>> /\ Pos(State) = <<1, 0>>

\* What previous() has to do to the navigation state s in MCQ mode, by C3.
ExpectedPrevQuiz(s) ==
  IF s.currentWordIndex > 0
  THEN [s EXCEPT !.currentWordIndex = s.currentWordIndex - 1]
  ELSE IF s.currentAyahIndex > 0
  THEN [s EXCEPT !.currentAyahIndex = s.currentAyahIndex - 1,
                 !.currentWordIndex = LastWord(s.currentAyahIndex - 1)]
  ELSE s

\* C3: a goPrev() call in MCQ mode moves to the previous word of the ayah,
\* else to the last word of the previous ayah, else (first word of the first
\* ayah) changes nothing.
C3_PrevInQuiz ==
  (last.op = "prev" /\ pre.loaded /\ pre.isMcqMode) => State = ExpectedPrevQuiz(PreNav)

\* goPrev() has just moved the quiz from the first word of ayah 1 to the last
\* word of ayah 0, which has two words.
C3_Witness ==
  /\ Loaded /\ last.op = "prev" /\ pre.isMcqMode
  /\ Pos(pre) = <<1, 0>> /\ Pos(State) = <<0, 1>> /\ NumWords(0) = 2

\* C4: a goNext() call in flashcard mode moves to the next ayah, or to ayah 0
\* from the last ayah, and stays in flashcard mode; with 3 ayahs three calls
\* from ayah 0 give the ayahs 1, 2, 0.
C4_NextInReview ==
  /\ (CalledGoNext /\ pre.loaded /\ ~pre.isMcqMode) =>
       /\ currentAyahIndex =
            IF pre.currentAyahIndex # LastAyah THEN pre.currentAyahIndex + 1 ELSE 0
       /\ ~isMcqMode
  /\ (Loaded /\ NumAyahs = 3) =>
       LET s0 == [currentAyahIndex |-> 0, currentWordIndex |-> 0, isMcqMode |-> FALSE]
           s1 == Nav(goNext(s0))
           s2 == Nav(goNext(s1))
           s3 == Nav(goNext(s2))
       IN <<s1.currentAyahIndex, s2.currentAyahIndex, s3.currentAyahIndex>> = <<1, 2, 0>>

\* goNext() has just restarted a surah of 3 ayahs from its last ayah.
C4_Witness ==
  /\ Loaded /\ NumAyahs = 3 /\ last.op = "next" /\ ~pre.isMcqMode
  /\ pre.currentAyahIndex = 2 /\ currentAyahIndex = 0

\* C5: a goPrev() call in flashcard mode moves to the previous ayah, and on
\* ayah 0 it changes nothing (no wrap to the last ayah, no refresh).
C5_PrevInReview ==
  (last.op = "prev" /\ ~pre.isMcqMode) =>
    IF pre.currentAyahIndex > 0
    THEN State = [PreNav EXCEPT !.currentAyahIndex = pre.currentAyahIndex - 1]
    ELSE /\ State = PreNav
         /\ ~last.display
         /\ flipped = pre.flipped /\ audio = pre.audio

\* goPrev() has just been called on ayah 0 of a loaded surah of several
\* ayahs, with the card flipped.
C5_Witness ==
  /\ Loaded /\ NumAyahs > 1 /\ last.op = "prev" /\ ~pre.isMcqMode
  /\ pre.currentAyahIndex = 0 /\ pre.flipped

\* The positions of the quiz in the loaded surah.
QuizStates ==
  {[currentAyahIndex |-> a, currentWordIndex |-> w, isMcqMode |-> TRUE] :
     a \in 0..LastAyah, w \in 0..(MaxTotalWords - 1)}

\* C6: on every position s of the quiz, goPrev after goNext gives s back
\* unless s is the last word of the last ayah, and goNext after goPrev gives
\* s back unless s is the first word of the first ayah.
C6_NextPrevInverse ==
  Loaded =>
    \A s \in QuizStates :
      s.currentWordIndex <= LastWord(s.currentAyahIndex) =>
        /\ Pos(s) # <<LastAyah, LastWord(LastAyah)>> => Nav(goPrev(Nav(goNext(s)))) = s
        /\ Pos(s) # <<0, 0>> => Nav(goNext(Nav(goPrev(s)))) = s

\* goPrev() has just undone a goNext() across the boundary of two ayahs of
\* different word counts: the state it left is goNext of the current one.
C6_Witness ==
  /\ Loaded /\ isMcqMode /\ last.op = "prev" /\ pre.isMcqMode
  /\ pre.currentAyahIndex = currentAyahIndex + 1
  /\ NumWords(pre.currentAyahIndex) # NumWords(currentAyahIndex)
  /\ PreNav = Nav(goNext(State))
  /\ currentWordIndex > 0

\* C7: switchMode(target) leaves the mode at target and the ayah index as it
\* was; with target MCQ the word index is 0 afterwards, whatever it was and
\* whatever the mode was.
C7_SwitchMode ==
  last.op = "switchMode" =>
    /\ isMcqMode = last.arg
    /\ currentAyahIndex = pre.currentAyahIndex
    /\ last.arg => currentWordIndex = 0

\* switchMode(true) has just run in MCQ mode on a word other than the first.
C7_Witness ==
  /\ Loaded /\ last.op = "switchMode" /\ last.arg
  /\ pre.isMcqMode /\ pre.currentWordIndex > 0 /\ pre.currentAyahIndex > 0
  /\ currentWordIndex = 0


\* What next() has to do to the navigation state s, by C2 and C4.
ExpectedNext(s) ==
  IF s.isMcqMode
  THEN ExpectedNextQuiz(s)
  ELSE [s EXCEPT !.currentAyahIndex = IF s.currentAyahIndex # LastAyah
                                      THEN s.currentAyahIndex + 1 ELSE 0]

SelectedCorrect == last.op = "select" /\ last.arg.selected = last.arg.correct
SelectedWrong == last.op = "select" /\ last.arg.selected # last.arg.correct

\* The state part of C8: what a selection and a timer callback have done.
C8_Effects ==
  /\ SelectedCorrect =>
       /\ mcqFeedback = "correct"
       /\ "correct" \in mcqOptions[last.arg.button].classList
       /\ timers = pre.timers + 1
       /\ State = PreNav
  /\ SelectedWrong =>
       /\ mcqFeedback = "wrong"
       /\ "wrong" \in mcqOptions[last.arg.button].classList
       /\ \E k \in 1..Len(mcqOptions) : mcqOptions[k].textContent = last.arg.correct
       /\ \A k \in 1..Len(mcqOptions) :
            mcqOptions[k].textContent = last.arg.correct => "correct" \in mcqOptions[k].classList
       /\ timers = pre.timers
       /\ State = PreNav
  /\ last.op = "timer" =>
       /\ timers = pre.timers - 1
       /\ State = ExpectedNext(PreNav)
  /\ timers > pre.timers => SelectedCorrect

\* C8: selecting the correct option marks it correct and schedules one timer,
\* whose callback later runs and calls goNext() once; selecting another
\* option marks it wrong, marks the correct option, and schedules nothing,
\* so no goNext() call comes from it.
C8_AnswerEvaluation ==
  /\ []C8_Effects
  /\ (timers > 0) ~> (last.op = "timer")

\* The timer of a correct answer has just fired on a word that is not the
\* last one, and no other timer is pending.
C8_Witness ==
  /\ last.op = "timer" /\ pre.isMcqMode /\ pre.timers = 1 /\ timers = 0
  /\ State # PreNav /\ mcqFeedback = ""


\* C9: no handler cancels a pending auto-advance: next, previous, switchMode
\* (and load, flip, play) leave the number of pending timers as it is, a
\* pending timer can always fire, and when it fires it applies goNext() to
\* the navigation state of that moment, in MCQ mode or in flashcard mode.
C9_NeverCancelled ==
  /\ last.op \notin {"select", "timer"} => timers = pre.timers
  /\ timers > 0 => ENABLED TimerFire
  /\ last.op = "timer" => (pre.loaded /\ pre.timers > 0 /\ State = ExpectedNext(PreNav))

\* A timer has just fired in flashcard mode on the last ayah and restarted
\* the surah, while another auto-advance is still pending.
C9_Witness ==
  /\ last.op = "timer" /\ ~pre.isMcqMode /\ NumAyahs > 1
  /\ pre.currentAyahIndex = LastAyah /\ currentAyahIndex = 0
  /\ timers > 0

\* A call that returns without assigning or refreshing anything.
NoOp(r) == ~r.display /\ Nav(r) = State

\* C10: once the corpus is loaded the enablement of the navigation buttons
\* matches the navigation state: in MCQ mode Previous is disabled iff the
\* position is (0,0) and Next iff it is the last word of the last ayah; in
\* flashcard mode Previous is disabled iff the ayah is 0 and Next never;
\* so a button is disabled exactly when its handler would do nothing.
C10_ButtonsMatchState ==
  Loaded =>
    /\ isMcqMode =>
         /\ prevDisabled <=> (currentAyahIndex = 0 /\ currentWordIndex = 0)
         /\ nextDisabled <=> (currentAyahIndex = LastAyah /\
                              currentWordIndex = LastWord(currentAyahIndex))
    /\ ~isMcqMode =>
         /\ prevDisabled <=> currentAyahIndex = 0
         /\ ~nextDisabled
    /\ prevDisabled <=> NoOp(goPrev(State))
    /\ nextDisabled <=> NoOp(goNext(State))

\* A timer has just moved the quiz onto the only word of the last ayah:
\* Next is disabled and Previous is not.
C10_Witness ==
  /\ Loaded /\ isMcqMode /\ last.op = "timer"
  /\ pre.currentAyahIndex # currentAyahIndex /\ currentWordIndex = 0
  /\ nextDisabled /\ ~prevDisabled


(* ---------------- shuffleArray ---------------- *)

Called == call # <<>>
Count(e, array) == Cardinality({k \in DOMAIN array : array[k] = e})
SameMultiset(a, b) == \A e \in 1..MaxLen : Count(e, a) = Count(e, b)
IsPermutationOf(out, in) ==
  /\ Len(out) = Len(in)
  /\ SameMultiset(out, in)
  /\ Len(in) <= 1 => out = in

\* C11: whatever the random indices j in [0, i] at the steps i = length-1
\* down to 1, the array shuffleArray returns has the length and the multiset
\* of elements of the array it was given, and arrays of length 0 and 1 come
\* back unchanged.
C11_ShuffleIsPermutation ==
  /\ \A r \in RandomIndices(Len(original)) : IsPermutationOf(shuffleArray(original, r), original)
  /\ Called => IsPermutationOf(shuffled, original)

\* shuffleArray has just reordered an array of three elements, two of them equal.
C11_Witness ==
  /\ Called /\ Len(original) = 3
  /\ original[1] = original[2] /\ original[3] # original[1]
  /\ shuffled # original

\* C12: displaying a word, any number of times, leaves the stored option
\* list as it was loaded: shuffleArray is given, permutes and returns a new
\* array object, not word.options.
C12_StoredOptionsUnchanged ==
  /\ options = original
  /\ Called => call[1].array # "stored"

\* A display has just shown the options in another order than the stored one.
C12_Witness ==
  /\ Called /\ Len(original) = MaxLen
  /\ shuffled # original /\ options = original

RECURSIVE Factorial(_)
Factorial(n) == IF n <= 1 THEN 1 ELSE n * Factorial(n - 1)

Distinct(array) == \A k, l \in DOMAIN array : array[k] = array[l] => k = l
Orderings(array) ==
  {p \in [1..Len(array) -> {array[k] : k \in DOMAIN array}] : SameMultiset(p, array)}

\* C13: on an array of n distinct elements the sequences of random indices
\* (j_i in [0, i], i = n-1 down to 1) and the n! orderings correspond one to
\* one: different sequences give different outputs and every ordering is
\* the output of some sequence.
C13_ShuffleBijection ==
  Distinct(original) =>
    LET R == RandomIndices(Len(original))
        Out == {shuffleArray(original, r) : r \in R}
    IN /\ \A r1, r2 \in R : shuffleArray(original, r1) = shuffleArray(original, r2) => r1 = r2
       /\ Out = Orderings(original)
       /\ Cardinality(R) = Factorial(Len(original))
       /\ Cardinality(Out) = Factorial(Len(original))

\* shuffleArray has just turned three distinct elements into a cyclic shift,
\* which takes a swap at both steps.
C13_Witness ==
  /\ Called /\ Len(original) = 3 /\ Distinct(original)
  /\ shuffled = <<original[3], original[1], original[2]>>


(* ---------------- autoplay, frame, quiz traversal ---------------- *)

\* The recitation playRecitation would start in the current state.
CurrentRecitation ==
  [surahNum |-> surahData.number, ayahNum |-> surahData.ayahs[currentAyahIndex + 1].number]

\* C14: switchMode never starts the recitation: its display refresh runs
\* with autoplay off, whichever tab is chosen and whatever the state, so
\* the audio player is the one there was before the call.
C14_SwitchModeNoAutoplay ==
  last.op = "switchMode" => (~last.played /\ audio = pre.audio)

\* Switching from the quiz to the flashcard has shown an ayah whose
\* recitation is not the one in the player.
C14_Witness ==
  /\ last.op = "switchMode" /\ ~last.arg /\ pre.isMcqMode
  /\ Loaded /\ last.display /\ ~last.threw
  /\ audio # CurrentRecitation

\* C15: the navigation state starts as (0, 0, flashcard) and only next,
\* previous, switchMode and the timer's goNext() change it: flip, play, the
\* refresh at load and a wrong answer leave it as it is, and a correct answer
\* leaves it as it is too and only schedules the timer that will call goNext().
C15_NavigationFrame ==
  /\ last.op = "init" =>
       State = [currentAyahIndex |-> 0, currentWordIndex |-> 0, isMcqMode |-> FALSE]
  /\ last.op \in {"flip", "play", "load", "select"} => State = PreNav
  /\ State # PreNav => last.op \in {"next", "prev", "switchMode", "timer"}
  /\ (last.op = "select" /\ last.arg.selected = last.arg.correct) =>
       (State = PreNav /\ timers = pre.timers + 1)

\* A correct answer has just been selected while an earlier auto-advance is
\* still pending: the position is the one before the click.
C15_Witness ==
  /\ last.op = "select" /\ last.arg.selected = last.arg.correct
  /\ pre.timers = 1 /\ timers = 2
  /\ State = PreNav

\* C18: whenever the corpus is loaded and the mode is MCQ the word index is
\* an index into the words of the current ayah, whatever next, previous,
\* switchMode, answers and late timers came before; displayMcqWord then finds
\* its word, no refresh has thrown, and the view shows the current word.
C18_QuizWordExists ==
  (Loaded /\ isMcqMode) =>
    /\ currentWordIndex \in 0..LastWord(currentAyahIndex)
    /\ ~DisplayThrows(surahData, State)
    /\ pre.loaded => ~last.threw
    /\ progress = updateProgress(surahData, State)
    /\ Len(mcqOptions) > 0
    /\ \A b \in 1..Len(mcqOptions) :
         mcqOptions[b].correct =
           surahData.ayahs[currentAyahIndex + 1].words[currentWordIndex + 1].meaning

\* A timer has fired on the last word of an ayah while another one was
\* pending, and has moved the quiz to an ayah with fewer words.
C18_Witness ==
  /\ Loaded /\ isMcqMode /\ last.op = "timer" /\ pre.isMcqMode
  /\ timers >= 1
  /\ currentAyahIndex = pre.currentAyahIndex + 1
  /\ pre.currentWordIndex > LastWord(currentAyahIndex)

\* The (ayah, word) pairs of the loaded corpus and their lexicographic order.
AllPositions == UNION {{<<a, w>> : w \in 0..LastWord(a)} : a \in 0..LastAyah}
Before(p, q) == p[1] < q[1] \/ (p[1] = q[1] /\ p[2] < q[2])
Rank(p) == Cardinality({q \in AllPositions : Before(q, p)})
TotalWords == Cardinality(AllPositions)
QuizStart == [currentAyahIndex |-> 0, currentWordIndex |-> 0, isMcqMode |-> TRUE]

\* The navigation state after k calls of goNext() from s.
RECURSIVE NextTimes(_, _)
NextTimes(s, k) == IF k = 0 THEN s ELSE Nav(goNext(NextTimes(s, k - 1)))

\* C19: from (0, 0) in MCQ mode the k-th goNext() reaches the k-th pair of
\* the corpus in lexicographic order, so that the first (total words - 1)
\* calls visit every pair once and end on the last word of the last ayah,
\* and further calls stay there; a goNext() the program runs in MCQ mode
\* moves one place up in that order, or stays on the last place.
C19_QuizTraversal ==
  Loaded =>
    /\ \A k \in 0..(TotalWords - 1) :
         /\ Pos(NextTimes(QuizStart, k)) \in AllPositions
         /\ Rank(Pos(NextTimes(QuizStart, k))) = k
    /\ {Pos(NextTimes(QuizStart, k)) : k \in 0..(TotalWords - 1)} = AllPositions
    /\ Pos(NextTimes(QuizStart, TotalWords - 1)) = <<LastAyah, LastWord(LastAyah)>>
    /\ \A k \in TotalWords..(TotalWords + MaxTotalWords) :
         NextTimes(QuizStart, k) = NextTimes(QuizStart, TotalWords - 1)
    /\ (CalledGoNext /\ pre.loaded /\ pre.isMcqMode) =>
         Rank(Pos(State)) =
           IF Rank(Pos(pre)) + 1 < TotalWords THEN Rank(Pos(pre)) + 1 ELSE TotalWords - 1

\* Next has been called on the last word of the last ayah of a corpus whose
\* first ayah has several words, and the quiz has stayed there.
C19_Witness ==
  /\ Loaded /\ isMcqMode /\ last.op = "next" /\ pre.isMcqMode
  /\ NumAyahs >= 2 /\ NumWords(0) >= 2
  /\ Pos(pre) = <<LastAyah, LastWord(LastAyah)>>
  /\ Pos(State) = Pos(pre) /\ ~last.display

\* C20: the recitation starts by itself only in flashcard mode and only on
\* navigation: every playRecitation call not made by the play button comes
\* from a next or previous step (a timer's goNext() included) taken in
\* flashcard mode, and no refresh in MCQ mode starts it.
C20_AutoplayOnlyOnNavigation ==
  /\ (last.played /\ last.op # "play") =>
       (last.op \in {"next", "prev", "timer"} /\ ~pre.isMcqMode)
  /\ (last.display /\ isMcqMode) => (~last.played /\ audio = pre.audio)


(* ---------------- the service worker ---------------- *)

\* C16: activation removes every cache whose name is not CACHE_NAME: once
\* the activate handler's work is done the only cache left is the current
\* one, it was never among the deleted ones, and it still holds the
\* precached files.
C16_ActivationPurgesOldCaches ==
  /\ swState \in {"activating", "activated"} =>
       /\ CACHE_NAME \in DOMAIN caches
       /\ CACHE_NAME \notin toDelete
       /\ Files \subseteq caches[CACHE_NAME]
       /\ DOMAIN caches \subseteq toDelete \cup {CACHE_NAME}
  /\ swState = "activated" => DOMAIN caches = {CACHE_NAME}

\* Activation has completed after deleting the previous version's cache and
\* an unrelated one.
C16_Witness ==
  /\ swState = "activated"
  /\ toDelete = {"quran-flashcards-v3", "fonts"}
  /\ DOMAIN caches = {CACHE_NAME}

\* C17: every request is answered from the cache when some cache holds a
\* response for it, without contacting the network; the network is fetched
\* from only when no cache holds one; and the handler leaves the cache
\* storage as it found it.
C17_CacheFirst ==
  fetched # Null =>
    /\ match(fetched.before, fetched.request) =>
         (fetched.source = "cache" /\ ~fetched.network)
    /\ ~match(fetched.before, fetched.request) =>
         (fetched.source \in {"network", "error"} /\ fetched.network)
    /\ caches = fetched.before

\* A precached file has just been served from the cache, the network untouched.
C17_Witness ==
  /\ fetched # Null
  /\ fetched.request = "/data/surahs.json"
  /\ fetched.source = "cache" /\ ~fetched.network

====
